---- MODULE Spec2Model ----
(***************************************************************************)
(* Model of src/main.py: the schema-to-diagram converter.                  *)
(*                                                                         *)
(* Names are sequences of one-character strings so that _clean_name is     *)
(* computed on characters.  A statement of the input is the record the     *)
(* regular expressions of parse_sql extract from it (kind, raw table name, *)
(* raw column entries, raw referenced table, column lines of a table       *)
(* body).  Column types are not modelled: nothing below reads them.        *)
(* Generated identifiers are modelled by what they identify: <<t, 0>> is   *)
(* the cell of table t, <<t, k>> the k-th displayed row of table t.        *)
(***************************************************************************)
EXTENDS Integers, Sequences, FiniteSets

VARIABLES
    stmts,              \* the statement candidates of the input, in order
    pc,                 \* position of main()
    i,                  \* loop index of the running loop
    tables,             \* schema.tables: ordered dict, as a sequence of entries
    current_x, current_y, col_counter, max_height_in_row,
    table_positions,    \* table name -> the geometry [x, y, w, h] of its cell
    sorted_columns,     \* table name -> displayed rows, as declared indices
    table_col_id_map,   \* table name -> (column name -> displayed row)
    edges,              \* the relationship edges emitted so far
    written,            \* the output document has been written
    cn_in, cn_once, cn_twice, cn_pc   \* the _clean_name round trip

vars == <<stmts, pc, i, tables, current_x, current_y, col_counter,
          max_height_in_row, table_positions, sorted_columns,
          table_col_id_map, edges, written, cn_in, cn_once, cn_twice, cn_pc>>

mainVars == <<stmts, pc, i, tables, current_x, current_y, col_counter,
              max_height_in_row, table_positions, sorted_columns,
              table_col_id_map, edges, written>>

cnVars == <<cn_in, cn_once, cn_twice, cn_pc>>

\* ---- bounds ----
MaxStmts == 4
MaxTables == 7
MaxCols == 1
MaxLen == 3

\* ---- constants of the program ----
TABLE_WIDTH == 300
ROW_HEIGHT == 30
GRID_PADDING_X == 340
MAX_COLS_PER_ROW == 3
ORIGIN == 40
ROW_GAP == 50

\* ---- characters ----
WS == " "
QUOTE == "\""
DOT == "."
Alphabet == {WS, QUOTE, DOT, "a", "b"}

SetMin(S) == CHOOSE m \in S : \A n \in S : m <= n
SetMax(S) == CHOOSE m \in S : \A n \in S : m >= n

\* str.strip(): drop the leading and trailing whitespace
strip(name) ==
    LET keep == {k \in 1..Len(name) : name[k] # WS}
    IN  IF keep = {} THEN <<>> ELSE SubSeq(name, SetMin(keep), SetMax(keep))

IsNotQuote(c) == c # QUOTE

\* PostgresSchema._clean_name
_clean_name(name) ==
    LET s1 == strip(name)
        s2 == SelectSeq(s1, IsNotQuote)
        dots == {k \in 1..Len(s2) : s2[k] = DOT}
    IN  IF dots # {} THEN SubSeq(s2, SetMax(dots) + 1, Len(s2)) ELSE s2

\* c.strip().split() is empty: the entry has no token
has_token(c) == \E k \in 1..Len(c) : c[k] # WS

\* c.strip().split()[0]: the first whitespace-delimited token of the entry
first_token(c) ==
    LET s == strip(c)
        ws == {k \in 1..Len(s) : s[k] = WS}
    IN  IF ws = {} THEN s ELSE SubSeq(s, 1, SetMin(ws) - 1)

\* ---- the schema model ----

NoneCol == [name |-> <<>>, not_null |-> FALSE, none |-> TRUE]

has_table(T, name) == \E k \in 1..Len(T) : T[k].name = name

table_index(T, name) == CHOOSE k \in 1..Len(T) : T[k].name = name

table_of(T, name) == T[table_index(T, name)]

\* PostgresSchema.add_table: the schema with the table, created when new
add_table(T, name) ==
    LET n == _clean_name(name)
    IN  IF has_table(T, n) THEN T
        ELSE Append(T, [name |-> n, columns |-> <<>>, pk |-> {},
                        fk |-> <<>>, uq |-> {}])

\* PostgresSchema.add_column
add_column(T, table, col_name, is_not_null) ==
    LET t == _clean_name(table)
        c == _clean_name(col_name)
    IN  IF has_table(T, t)
        THEN [T EXCEPT ![table_index(T, t)].columns =
                  Append(@, [name |-> c, not_null |-> is_not_null, none |-> FALSE])]
        ELSE T

\* PostgresSchema.get_column_info: the first column of that name, or None
get_column_info(T, table, col_name) ==
    LET t == _clean_name(table)
        c == _clean_name(col_name)
    IN  IF has_table(T, t)
        THEN LET cols == table_of(T, t).columns
                 hits == {k \in 1..Len(cols) : cols[k].name = c}
             IN  IF hits # {} THEN cols[SetMin(hits)] ELSE NoneCol
        ELSE NoneCol

\* PostgresSchema.add_pk
add_pk(T, table, cols) ==
    LET t == _clean_name(table)
    IN  IF has_table(T, t)
        THEN [T EXCEPT ![table_index(T, t)].pk =
                  @ \cup {_clean_name(cols[k]) : k \in 1..Len(cols)}]
        ELSE T

\* dict assignment d[col] = ref_table: overwrite in place, or append
dict_set(d, col, ref_table) ==
    IF \E k \in 1..Len(d) : d[k].col = col
    THEN [k \in 1..Len(d) |->
             IF d[k].col = col THEN [col |-> col, ref |-> ref_table] ELSE d[k]]
    ELSE Append(d, [col |-> col, ref |-> ref_table])

\* add_fk that creates the table it does not find
add_fk_creating(T, table, col, ref_table) ==
    LET t == _clean_name(table)
        c == _clean_name(col)
        r == _clean_name(ref_table)
        T1 == IF has_table(T, t) THEN T
              ELSE Append(T, [name |-> t, columns |-> <<>>, pk |-> {},
                              fk |-> <<>>, uq |-> {}])
    IN  [T1 EXCEPT ![table_index(T1, t)].fk = dict_set(@, c, r)]

\* PostgresSchema.add_fk
add_fk(T, table, col, ref_table) ==
    LET t == _clean_name(table)
        c == _clean_name(col)
        r == _clean_name(ref_table)
    IN  IF has_table(T, t)
        THEN [T EXCEPT ![table_index(T, t)].fk = dict_set(@, c, r)]
        ELSE T

\* PostgresSchema.add_uq
add_uq(T, table, cols) ==
    LET t == _clean_name(table)
    IN  IF has_table(T, t)
        THEN [T EXCEPT ![table_index(T, t)].uq =
                  @ \cup {_clean_name(cols[k]) : k \in 1..Len(cols)}]
        ELSE T

\* get_cardinality with the two tests exchanged: the child side decided by
\* the not-null flag, the parent side by uniqueness
get_cardinality_mixed(T, source_table, source_col, target_table) ==
    LET source_pks == table_of(T, source_table).pk
        source_uqs == table_of(T, source_table).uq
        is_unique_fk == (source_col \in source_pks) \/ (source_col \in source_uqs)
        col_info == get_column_info(T, source_table, source_col)
        is_not_null == IF col_info.none THEN FALSE ELSE col_info.not_null
        label_source == IF is_not_null THEN "0..1" ELSE "0..N"
        label_target == IF is_unique_fk THEN "1" ELSE "0..1"
    IN  <<label_source, label_target>>

\* get_cardinality: <<label_source, label_target>>
get_cardinality(T, source_table, source_col, target_table) ==
    LET source_pks == table_of(T, source_table).pk
        source_uqs == table_of(T, source_table).uq
        is_unique_fk == (source_col \in source_pks) \/ (source_col \in source_uqs)
        label_source == IF is_unique_fk THEN "0..1" ELSE "0..N"
        col_info == get_column_info(T, source_table, source_col)
        is_not_null == IF col_info.none THEN FALSE ELSE col_info.not_null
        label_target == IF is_not_null THEN "1" ELSE "0..1"
    IN  <<label_source, label_target>>

\* ---- the input ----

Stmt(kind, table, cols, ref, lines) ==
    [kind |-> kind, table |-> table, cols |-> cols, ref |-> ref, lines |-> lines]

\* a column line of a table body: first token, "NOT NULL" in the line,
\* "PRIMARY KEY" in the rest (lines the loop skips are left out)
Line(name, not_null, inline_pk) ==
    [name |-> name, not_null |-> not_null, inline_pk |-> inline_pk]

CreateTable(table, lines) == Stmt("table", table, <<>>, <<>>, lines)
AlterPK(table, cols) == Stmt("pk", table, cols, <<>>, <<>>)
AlterFK(table, cols, ref) == Stmt("fk", table, cols, ref, <<>>)
UniqueIndex(table, cols) == Stmt("idx", table, cols, <<>>, <<>>)

Statements ==
    << CreateTable(<<"a">>, <<Line(<<"i">>, FALSE, TRUE), Line(<<"p">>, TRUE, FALSE)>>),
      CreateTable(<<"a">>, <<Line(<<"i">>, FALSE, TRUE), Line(<<"p">>, FALSE, FALSE)>>),
      CreateTable(<<QUOTE, "a", QUOTE>>,
                  <<Line(<<"p">>, TRUE, FALSE), Line(<<QUOTE, "p", QUOTE>>, FALSE, FALSE)>>),
      CreateTable(<<"b">>, <<Line(<<"x">>, FALSE, FALSE), Line(<<"y">>, FALSE, FALSE)>>),
      AlterPK(<<"s", DOT, "b">>, <<<<"x">>, <<WS, QUOTE, "y", QUOTE>>>>),
      AlterFK(<<"a">>, <<<<"p">>>>, <<"s", DOT, "b">>),
      AlterFK(<<"a">>, <<<<"p">>>>, <<"c">>),
      AlterFK(<<"s", DOT, "a">>, <<<<"q">>, <<WS, "p">>>>, <<"b">>),
      AlterFK(<<"a">>, <<<<QUOTE, WS, "p", QUOTE>>>>, <<"b">>),
      UniqueIndex(<<"a">>, <<<<"p", WS, "d">>>>),
      UniqueIndex(<<"a">>, <<<<"p">>, <<WS>>>>) >>

\* inputs of at most MaxStmts statements, no statement written twice
GeneralInput ==
    \E n \in 0..MaxStmts : \E g \in [1..n -> 1..Len(Statements)] :
        /\ \A j, k \in 1..n : g[j] = g[k] => j = k
        /\ stmts = [k \in 1..n |-> Statements[g[k]]]

Letters == <<"a", "b", "c", "d", "e", "f", "g", "h", "k", "m">>
ColLetters == <<"u", "v", "w", "x", "y">>

PlainLines(n) == [k \in 1..n |-> Line(<<ColLetters[k]>>, FALSE, FALSE)]

\* n table definitions of distinct names, the k-th with h[k] columns
LayoutInput ==
    \E n \in 1..MaxTables : \E h \in [1..n -> 0..MaxCols] :
        stmts = [k \in 1..n |-> CreateTable(<<Letters[k]>>, PlainLines(h[k]))]

\* ---- parse_sql ----

RECURSIVE add_lines(_, _, _)
\* the loop over the lines of a table body
add_lines(T, t_name, lines) ==
    IF lines = <<>> THEN T
    ELSE LET l == Head(lines)
             T1 == add_column(T, t_name, l.name, l.not_null)
             T2 == IF l.inline_pk THEN add_pk(T1, t_name, <<l.name>>) ELSE T1
         IN  add_lines(T2, t_name, Tail(lines))

\* the body of the first loop for a statement that matches re_create_table
create_table(T, s) ==
    LET table_raw_name == strip(s.table)
        t_name == _clean_name(table_raw_name)
    IN  add_lines(add_table(T, table_raw_name), t_name, s.lines)

\* the second loop's branch for re_alter_pk
alter_pk(T, s) == add_pk(T, s.table, [k \in 1..Len(s.cols) |-> strip(s.cols[k])])

\* the second loop's branch for re_alter_fk: the first column only
alter_fk(T, s) == add_fk(T, s.table, strip(s.cols[1]), s.ref)

\* the second loop's branch for re_create_idx, when no entry is empty
create_idx(T, s) == add_uq(T, s.table, [k \in 1..Len(s.cols) |-> first_token(s.cols[k])])

\* [...][0] raises IndexError on an entry without a token
idx_raises(s) == \E k \in 1..Len(s.cols) : ~has_token(s.cols[k])

LayoutUnchanged ==
    UNCHANGED <<current_x, current_y, col_counter, max_height_in_row,
                table_positions, sorted_columns, table_col_id_map, edges, written>>

Pass1Table ==
    /\ pc = "pass1" /\ i <= Len(stmts) /\ stmts[i].kind = "table"
    /\ tables' = create_table(tables, stmts[i])
    /\ i' = i + 1
    /\ UNCHANGED <<stmts, pc, cnVars>> /\ LayoutUnchanged

Pass1Skip ==
    /\ pc = "pass1" /\ i <= Len(stmts) /\ stmts[i].kind # "table"
    /\ i' = i + 1
    /\ UNCHANGED <<stmts, pc, tables, cnVars>> /\ LayoutUnchanged

Pass1End ==
    /\ pc = "pass1" /\ i > Len(stmts)
    /\ pc' = "pass2" /\ i' = 1
    /\ UNCHANGED <<stmts, tables, cnVars>> /\ LayoutUnchanged

Pass2PK ==
    /\ pc = "pass2" /\ i <= Len(stmts) /\ stmts[i].kind = "pk"
    /\ tables' = alter_pk(tables, stmts[i])
    /\ i' = i + 1
    /\ UNCHANGED <<stmts, pc, cnVars>> /\ LayoutUnchanged

Pass2FK ==
    /\ pc = "pass2" /\ i <= Len(stmts) /\ stmts[i].kind = "fk"
    /\ tables' = alter_fk(tables, stmts[i])
    /\ i' = i + 1
    /\ UNCHANGED <<stmts, pc, cnVars>> /\ LayoutUnchanged

Pass2Idx ==
    /\ pc = "pass2" /\ i <= Len(stmts) /\ stmts[i].kind = "idx"
    /\ ~idx_raises(stmts[i])
    /\ tables' = create_idx(tables, stmts[i])
    /\ i' = i + 1
    /\ UNCHANGED <<stmts, pc, cnVars>> /\ LayoutUnchanged

\* the IndexError leaves parse_sql; main catches it and exits with status 1
Pass2IdxRaise ==
    /\ pc = "pass2" /\ i <= Len(stmts) /\ stmts[i].kind = "idx"
    /\ idx_raises(stmts[i])
    /\ pc' = "exit_error"
    /\ UNCHANGED <<stmts, i, tables, cnVars>> /\ LayoutUnchanged

Pass2Skip ==
    /\ pc = "pass2" /\ i <= Len(stmts) /\ stmts[i].kind \notin {"pk", "fk", "idx"}
    /\ i' = i + 1
    /\ UNCHANGED <<stmts, pc, tables, cnVars>> /\ LayoutUnchanged

\* parse_sql returned and the schema has no table: warning, exit status 0
NoTables ==
    /\ pc = "pass2" /\ i > Len(stmts) /\ tables = <<>>
    /\ pc' = "exit_warning"
    /\ UNCHANGED <<stmts, i, tables, cnVars>> /\ LayoutUnchanged

ParseDone ==
    /\ pc = "pass2" /\ i > Len(stmts) /\ tables # <<>>
    /\ pc' = "layout" /\ i' = 1
    /\ UNCHANGED <<stmts, tables, cnVars>> /\ LayoutUnchanged

\* ---- main: the layout loop ----

\* d[k] = v on a dict
put(d, k, v) == [n \in (DOMAIN d) \cup {k} |-> IF n = k THEN v ELSE d[n]]

EmptyDict == [n \in {} |-> 0]

RECURSIVE ascending(_)
ascending(S) ==
    IF S = {} THEN <<>> ELSE <<SetMin(S)>> \o ascending(S \ {SetMin(S)})

\* pk_cols + other_cols, each column given by its declared index
sort_columns(td) ==
    LET all == 1..Len(td.columns)
        pk_cols == {k \in all : td.columns[k].name \in td.pk}
    IN  ascending(pk_cols) \o ascending(all \ pk_cols)

table_height(sc) == (Len(sc) * ROW_HEIGHT) + ROW_HEIGHT

\* table_col_id_map[table_name][col_name] = row_id, assigned row after row:
\* the last displayed row of a name is the one that stays
col_id_map(td, sc) ==
    [c \in {td.columns[k].name : k \in 1..Len(td.columns)} |->
        SetMax({j \in 1..Len(sc) : td.columns[sc[j]].name = c})]

Cursor(x, y, n, h) ==
    [current_x |-> x, current_y |-> y, col_counter |-> n, max_height_in_row |-> h]

\* advance_cursor that keeps the row's maximum height across a wrap
advance_cursor_keep_max(c) ==
    LET n == c.col_counter + 1
        x == c.current_x + GRID_PADDING_X
    IN  IF n >= MAX_COLS_PER_ROW
        THEN Cursor(ORIGIN, c.current_y + (c.max_height_in_row + ROW_GAP), 0,
                    c.max_height_in_row)
        ELSE Cursor(x, c.current_y, n, c.max_height_in_row)

\* the end of the loop body: next slot, or wrap to a new row
advance_cursor(c) ==
    LET n == c.col_counter + 1
        x == c.current_x + GRID_PADDING_X
    IN  IF n >= MAX_COLS_PER_ROW
        THEN Cursor(ORIGIN, c.current_y + (c.max_height_in_row + ROW_GAP), 0, 0)
        ELSE Cursor(x, c.current_y, n, c.max_height_in_row)

LayoutStep ==
    /\ pc = "layout" /\ i <= Len(tables)
    /\ LET td == tables[i]
           sc == sort_columns(td)
           h == table_height(sc)
           mh == IF h > max_height_in_row THEN h ELSE max_height_in_row
           nxt == advance_cursor(Cursor(current_x, current_y, col_counter, mh))
       IN  /\ table_positions' =
                 put(table_positions, td.name,
                     [x |-> current_x, y |-> current_y, w |-> TABLE_WIDTH, h |-> h])
           /\ sorted_columns' = put(sorted_columns, td.name, sc)
           /\ table_col_id_map' = put(table_col_id_map, td.name, col_id_map(td, sc))
           /\ current_x' = nxt.current_x
           /\ current_y' = nxt.current_y
           /\ col_counter' = nxt.col_counter
           /\ max_height_in_row' = nxt.max_height_in_row
    /\ i' = i + 1
    /\ UNCHANGED <<stmts, pc, tables, edges, written, cnVars>>

LayoutDone ==
    /\ pc = "layout" /\ i > Len(tables)
    /\ pc' = "rel" /\ i' = 1
    /\ UNCHANGED <<stmts, tables, cnVars>> /\ LayoutUnchanged

\* ---- main: the relationship loop ----

RECURSIVE fk_list(_)
\* the pairs the two nested loops visit, in order
fk_list(T) ==
    IF T = <<>> THEN <<>>
    ELSE [k \in 1..Len(Head(T).fk) |->
             [table |-> Head(T).name, col |-> Head(T).fk[k].col, ref |-> Head(T).fk[k].ref]]
         \o fk_list(Tail(T))

NoneId == <<>>

table_id(t) == <<t, 0>>

\* row_id_of that falls back to the table's cell for an unknown column
row_id_of_fallback(m, table_name, col_name) ==
    IF table_name \in DOMAIN m /\ col_name \in DOMAIN m[table_name]
    THEN <<table_name, m[table_name][col_name]>>
    ELSE IF table_name \in DOMAIN m THEN table_id(table_name) ELSE NoneId

\* table_col_id_map.get(table_name, {}).get(col_name)
row_id_of(m, table_name, col_name) ==
    IF table_name \in DOMAIN m /\ col_name \in DOMAIN m[table_name]
    THEN <<table_name, m[table_name][col_name]>>
    ELSE NoneId

\* list(pk)[0] of a set: any of its elements, in no order the program fixes
first_of_set(S) == S

\* the values target_row_id can take for an existing target table
target_row_ids(T, m, target_table_name) ==
    LET target_pk_cols == table_of(T, target_table_name).pk
    IN  IF target_pk_cols # {}
        THEN {IF row_id_of(m, target_table_name, c) # NoneId
              THEN row_id_of(m, target_table_name, c)
              ELSE table_id(target_table_name) : c \in first_of_set(target_pk_cols)}
        ELSE {table_id(target_table_name)}

RelStep ==
    /\ pc = "rel" /\ i <= Len(fk_list(tables))
    /\ LET f == fk_list(tables)[i]
           source_row_id == row_id_of(table_col_id_map, f.table, f.col)
       IN  /\ has_table(tables, f.ref)
           /\ \E target_row_id \in target_row_ids(tables, table_col_id_map, f.ref) :
                 IF source_row_id # NoneId
                 THEN LET labels == get_cardinality(tables, f.table, f.col, f.ref)
                      IN  edges' = edges \cup
                            {[table |-> f.table, col |-> f.col, ref |-> f.ref,
                              source |-> source_row_id, target |-> target_row_id,
                              label_source |-> labels[1], label_target |-> labels[2],
                              exit_left |-> table_positions[f.ref].x
                                              < table_positions[f.table].x]}
                 ELSE edges' = edges
    /\ i' = i + 1
    /\ UNCHANGED <<stmts, pc, tables, current_x, current_y, col_counter,
                   max_height_in_row, table_positions, sorted_columns,
                   table_col_id_map, written, cnVars>>

\* schema.tables[target_table_name] raises KeyError, which nothing catches
RelCrash ==
    /\ pc = "rel" /\ i <= Len(fk_list(tables))
    /\ ~has_table(tables, fk_list(tables)[i].ref)
    /\ pc' = "crashed"
    /\ UNCHANGED <<stmts, i, tables, cnVars>> /\ LayoutUnchanged

WriteOutput ==
    /\ pc = "rel" /\ i > Len(fk_list(tables))
    /\ written' = TRUE
    /\ pc' = "done"
    /\ UNCHANGED <<stmts, i, tables, current_x, current_y, col_counter,
                   max_height_in_row, table_positions, sorted_columns,
                   table_col_id_map, edges, cnVars>>

\* ---- _clean_name applied to its own result ----

RECURSIVE Strings(_)
Strings(n) ==
    IF n = 0 THEN {<<>>}
    ELSE Strings(n - 1) \cup {Append(s, c) : s \in Strings(n - 1), c \in Alphabet}

CleanOnce ==
    /\ cn_pc = "start"
    /\ cn_once' = _clean_name(cn_in)
    /\ cn_pc' = "once"
    /\ UNCHANGED <<cn_in, cn_twice, mainVars>>

CleanTwice ==
    /\ cn_pc = "once"
    /\ cn_twice' = _clean_name(cn_once)
    /\ cn_pc' = "twice"
    /\ UNCHANGED <<cn_in, cn_once, mainVars>>

\* ---- specifications ----

MainIdle(p) ==
    /\ pc = p
    /\ i = 1
    /\ tables = <<>>
    /\ current_x = ORIGIN
    /\ current_y = ORIGIN
    /\ col_counter = 0
    /\ max_height_in_row = 0
    /\ table_positions = EmptyDict
    /\ sorted_columns = EmptyDict
    /\ table_col_id_map = EmptyDict
    /\ edges = {}
    /\ written = FALSE

Init ==
    /\ GeneralInput \/ LayoutInput
    /\ MainIdle("pass1")
    /\ cn_in = <<>> /\ cn_once = <<>> /\ cn_twice = <<>> /\ cn_pc = "idle"

Next ==
    \/ Pass1Table \/ Pass1Skip \/ Pass1End
    \/ Pass2PK \/ Pass2FK \/ Pass2Idx \/ Pass2IdxRaise \/ Pass2Skip
    \/ NoTables \/ ParseDone
    \/ LayoutStep \/ LayoutDone
    \/ RelStep \/ RelCrash \/ WriteOutput

Spec == Init /\ [][Next]_vars

InitClean ==
    /\ stmts = <<>>
    /\ MainIdle("idle")
    /\ cn_in \in Strings(MaxLen)
    /\ cn_once = <<>> /\ cn_twice = <<>> /\ cn_pc = "start"

NextClean == CleanOnce \/ CleanTwice

SpecClean == InitClean /\ [][NextClean]_vars

\* ---- properties ----

col_names(td) == {td.columns[k].name : k \in 1..Len(td.columns)}

\* the declared index of the first column of table t named c (0 when none)
first_declared(t, c) ==
    LET cols == table_of(tables, t).columns
        hits == {k \in 1..Len(cols) : cols[k].name = c}
    IN  IF hits = {} THEN 0 ELSE SetMin(hits)

past_parse == pc \in {"layout", "rel", "done", "crashed"}

\* C1 as stated: every edge of a foreign key of a table with an empty
\* primary-key set carries the child-side label "0..N", whatever the table's
\* unique-index set contains
C1_NoPkAlwaysMany ==
    \A e \in edges :
        table_of(tables, e.table).pk = {} => e.label_source = "0..N"

\* C1 amended: every edge of a foreign key of a table with an empty
\* primary-key set whose column is not in the table's unique-index set
\* carries the child-side label "0..N"
C1_NoPkNoUqMany ==
    \A e \in edges :
        (table_of(tables, e.table).pk = {} /\ e.col \notin table_of(tables, e.table).uq)
            => e.label_source = "0..N"

C1_Witness ==
    /\ pc = "done"
    /\ \E e \in edges :
          /\ table_of(tables, e.table).pk = {}
          /\ e.col \notin table_of(tables, e.table).uq
          /\ e.label_source = "0..N"

\* the labels C2 states for foreign-key column c of table t
expected_labels(t, c) ==
    LET td == table_of(tables, t)
        k == first_declared(t, c)
    IN  <<IF c \in td.pk \cup td.uq THEN "0..1" ELSE "0..N",
          IF k # 0 /\ td.columns[k].not_null THEN "1" ELSE "0..1">>

C2_Labels ==
    /\ \A e \in edges :
          <<e.label_source, e.label_target>> = expected_labels(e.table, e.col)
    /\ past_parse =>
          \A k \in 1..Len(fk_list(tables)) :
              LET f == fk_list(tables)[k]
              IN  _clean_name(f.col) = f.col =>
                      get_cardinality(tables, f.table, f.col, f.ref)
                          = expected_labels(f.table, f.col)

C3_Idempotent == cn_pc = "twice" => cn_twice = cn_once

\* C4: a foreign key whose referenced table is not in the schema does not make
\* the relationship loop fail
C4_DanglingTolerated ==
    (\E k \in 1..Len(fk_list(tables)) : ~has_table(tables, fk_list(tables)[k].ref))
        => pc # "crashed"

\* the height of the k-th table: 30 per column plus 30 for the header
height_of(k) == 30 * (Len(tables[k].columns) + 1)

\* the maximum height of the tables of the complete layout row r (0-based)
row_max(r) == SetMax({height_of(k) : k \in (3 * r + 1)..(3 * r + 3)})

RECURSIVE rows_above(_)
\* the sum of (row maximum + 50) over the rows 0..r-1
rows_above(r) == IF r = 0 THEN 0 ELSE rows_above(r - 1) + row_max(r - 1) + 50

placed(k) == tables[k].name \in DOMAIN table_positions

position(k) == table_positions[tables[k].name]

apart(a, b) ==
    \/ a.x + a.w <= b.x \/ b.x + b.w <= a.x
    \/ a.y + a.h <= b.y \/ b.y + b.h <= a.y

\* C5: the k-th table (1-based) is placed at x = 40 + 340*((k-1) mod 3),
\* y = 40 + the sum over the earlier layout rows of (row maximum height + 50),
\* with width 300 and height 30*(columns + 1), and no two placed rectangles
\* overlap
C5_Grid ==
    \A k \in 1..Len(tables) :
        placed(k) =>
            /\ position(k) = [x |-> 40 + 340 * ((k - 1) % 3),
                              y |-> 40 + rows_above((k - 1) \div 3),
                              w |-> 300,
                              h |-> height_of(k)]
            /\ \A j \in 1..Len(tables) :
                  (placed(j) /\ j # k) => apart(position(j), position(k))

\* four tables of one height H: three on y = 40 at increasing x, the fourth at
\* x = 40, y = 40 + H + 50; and a third row below two rows of different maxima
C5_Witness ==
    /\ pc = "done" /\ Len(tables) >= 7
    /\ \E H \in {30, 60} :
          /\ \A k \in 1..4 : position(k).h = H
          /\ position(1).x < position(2).x /\ position(2).x < position(3).x
          /\ \A k \in 1..3 : position(k).y = 40
          /\ position(4) = [x |-> 40, y |-> 40 + H + 50, w |-> 300, h |-> H]
    /\ row_max(0) # row_max(1)
    /\ position(7).x = 40 /\ position(7).y = 40 + row_max(0) + 50 + row_max(1) + 50

has_edge(f) == \E e \in edges : e.table = f.table /\ e.col = f.col

\* C6: a recorded foreign key whose column is not the name of a declared
\* column of its table has no edge (and so no labels), whatever its target
C6_UndeclaredNoEdge ==
    \A k \in 1..Len(fk_list(tables)) :
        LET f == fk_list(tables)[k]
        IN  f.col \notin col_names(table_of(tables, f.table)) => ~has_edge(f)

\* the loop has passed such a foreign key whose target exists and has
\* primary keys, and the output is written without an edge for it
C6_Witness ==
    /\ pc = "done" /\ written
    /\ \E k \in 1..Len(fk_list(tables)) :
          LET f == fk_list(tables)[k]
          IN  /\ f.col \notin col_names(table_of(tables, f.table))
              /\ has_table(tables, f.ref)
              /\ table_of(tables, f.ref).pk # {}
              /\ ~has_edge(f)

\* C7: parse_sql never raises, so the run never ends with the failure exit
C7_ParseNeverFails == pc # "exit_error"

\* the displayed row of the first primary-key column of table t (0 when no
\* primary-key name is a declared column)
first_pk_row(t) ==
    LET td == table_of(tables, t)
        sc == sorted_columns[t]
        hits == {j \in 1..Len(sc) : td.columns[sc[j]].name \in td.pk}
    IN  IF hits = {} THEN 0 ELSE SetMin(hits)

\* C8: the target of every edge is the row of the target table's first
\* primary-key column when that table has a recorded primary key, and the
\* table's cell only when it has none
C8_FirstPkTarget ==
    \A e \in edges :
        IF table_of(tables, e.ref).pk # {}
        THEN first_pk_row(e.ref) # 0 /\ e.target = <<e.ref, first_pk_row(e.ref)>>
        ELSE e.target = table_id(e.ref)

\* a table definition of table t stands somewhere in the input
defined_anywhere(t) ==
    \E k \in 1..Len(stmts) :
        stmts[k].kind = "table" /\ _clean_name(strip(stmts[k].table)) = t

\* schema T holds the fact of constraint statement s
fact_recorded(T, s) ==
    LET td == table_of(T, _clean_name(s.table))
    IN  CASE s.kind = "pk" ->
               \A k \in 1..Len(s.cols) : _clean_name(strip(s.cols[k])) \in td.pk
          [] s.kind = "fk" ->
               \E k \in 1..Len(td.fk) :
                   td.fk[k] = [col |-> _clean_name(strip(s.cols[1])),
                               ref |-> _clean_name(s.ref)]
          [] s.kind = "idx" ->
               \A k \in 1..Len(s.cols) : _clean_name(first_token(s.cols[k])) \in td.uq

constraint_step ==
    /\ pc = "pass2" /\ i <= Len(stmts) /\ i' = i + 1
    /\ stmts[i].kind \in {"pk", "fk", "idx"}

\* C9: in the second pass the schema holds exactly the tables defined anywhere
\* in the input, and a step over a primary-key, foreign-key or unique-index
\* statement naming table T records its fact when T is defined anywhere in the
\* input, before or after it, and otherwise changes nothing
C9_OrderIndependent ==
    /\ [](pc = "pass2" =>
            \A t \in {_clean_name(stmts[k].table) : k \in 1..Len(stmts)} :
                has_table(tables, t) <=> defined_anywhere(t))
    /\ [][constraint_step =>
            IF defined_anywhere(_clean_name(stmts[i].table))
            THEN /\ has_table(tables', _clean_name(stmts[i].table))
                 /\ fact_recorded(tables', stmts[i])
            ELSE tables' = tables]_vars

\* a constraint statement standing before the definition of its table has
\* been passed by the second loop and its fact is in the schema
C9_Witness ==
    /\ pc = "pass2"
    /\ \E j \in 1..Len(stmts) : \E k \in 1..Len(stmts) :
          /\ j < k /\ j < i
          /\ stmts[j].kind \in {"pk", "fk", "idx"}
          /\ stmts[k].kind = "table"
          /\ _clean_name(strip(stmts[k].table)) = _clean_name(stmts[j].table)
          /\ ~(stmts[j].kind = "idx" /\ idx_raises(stmts[j]))
          /\ fact_recorded(tables, stmts[j])

\* C10: the source row of every edge shows the first declared column of the
\* foreign key's name, the one get_column_info reads the not-null flag from
C10_SameOccurrence ==
    \A e \in edges :
        /\ e.source # NoneId
        /\ sorted_columns[e.table][e.source[2]] = first_declared(e.table, e.col)

====
